---- MODULE Spec2Model ----
(***************************************************************************)
(* Model of zfs_exporter's pool code (src/zfs/pool.go): the topology       *)
(* parser parsePoolDisksFromLines with the text functions it relies on,    *)
(* the pool-disks collector that publishes its records, and the pool       *)
(* collector that fans out one worker per pool.                            *)
(*                                                                         *)
(* Text is modelled as sequences of one-character strings, so that         *)
(* strings.TrimLeft, strings.Fields, strings.Contains and strconv.Atoi are *)
(* computed the way the library computes them.                             *)
(***************************************************************************)
EXTENDS Integers, Sequences, FiniteSets, TLC

(***************************************************************************)
(* Text functions used by the parser.                                      *)
(***************************************************************************)

\* A run of n space characters.
Spaces(n) == [i \in 1..n |-> " "]

\* unicode.IsSpace on the characters that occur in a status report.
IsSpace(c) == c \in {" ", "\t", "\n", "\r"}

IsDigit(c) == c \in {"0", "1", "2", "3", "4", "5", "6", "7", "8", "9"}

DigitVal(c) ==
    CASE c = "0" -> 0 [] c = "1" -> 1 [] c = "2" -> 2 [] c = "3" -> 3
      [] c = "4" -> 4 [] c = "5" -> 5 [] c = "6" -> 6 [] c = "7" -> 7
      [] c = "8" -> 8 [] c = "9" -> 9

\* strings.TrimLeft(line, " "): drop the leading spaces (and only spaces).
RECURSIVE TrimLeft(_)
TrimLeft(s) ==
    IF s # <<>> /\ Head(s) = " " THEN TrimLeft(Tail(s)) ELSE s

\* len(line) - len(strings.TrimLeft(line, " "))
Padding(line) == Len(line) - Len(TrimLeft(line))

\* strings.Fields: the maximal runs of non-space characters, in order.
RECURSIVE FieldsFrom(_, _, _)
FieldsFrom(s, cur, acc) ==
    IF s = <<>>
    THEN IF cur = <<>> THEN acc ELSE Append(acc, cur)
    ELSE IF IsSpace(Head(s))
         THEN FieldsFrom(Tail(s), <<>>, IF cur = <<>> THEN acc ELSE Append(acc, cur))
         ELSE FieldsFrom(Tail(s), Append(cur, Head(s)), acc)

Fields(line) == FieldsFrom(line, <<>>, <<>>)

\* strings.Contains(line, sub)
Contains(line, sub) ==
    \E i \in 0..(Len(line) - Len(sub)) : SubSeq(line, i + 1, i + Len(sub)) = sub

\* strings.ReplaceAll(line, "\t", "        ")
RECURSIVE ExpandTabs(_)
ExpandTabs(s) ==
    IF s = <<>> THEN <<>>
    ELSE IF Head(s) = "\t" THEN Spaces(8) \o ExpandTabs(Tail(s))
         ELSE <<Head(s)>> \o ExpandTabs(Tail(s))

\* The value of a run of decimal digits, most significant first.
RECURSIVE DigitsVal(_, _)
DigitsVal(ds, n) ==
    IF ds = <<>> THEN n ELSE DigitsVal(Tail(ds), n * 10 + DigitVal(Head(ds)))

\* strconv.Atoi: an optional sign, then one or more decimal digits.  The
\* result is [ok, val]; ok = FALSE is the *NumError return.  (The range
\* error of 19 and more digits lies beyond the counters modelled here.)
Atoi(s) ==
    LET signed == s # <<>> /\ Head(s) \in {"-", "+"}
        ds     == IF signed THEN Tail(s) ELSE s
    IN  IF ds = <<>> \/ \E i \in 1..Len(ds) : ~IsDigit(ds[i])
        THEN [ok |-> FALSE, val |-> 0]
        ELSE [ok |-> TRUE,
              val |-> IF signed /\ Head(s) = "-"
                      THEN 0 - DigitsVal(ds, 0) ELSE DigitsVal(ds, 0)]

(***************************************************************************)
(* Literals of the source.                                                 *)
(***************************************************************************)
strNAME   == <<"N", "A", "M", "E">>
strSTATE  == <<"S", "T", "A", "T", "E">>
strCKSUM  == <<"C", "K", "S", "U", "M">>
strSpares == <<"s", "p", "a", "r", "e", "s">>

NoErr == "nil"
ErrAtoi == "strconv.NumError"
ErrExec == "exec.Error"

\* PoolDisk{Zpool, Name, Vdev, Kind, State, ReadErrors, WriteErrors, ChecksumErrors}
PoolDisk(zpool, vdev, name, kind, state, r, w, c) ==
    [Zpool |-> zpool, Vdev |-> vdev, Name |-> name, Kind |-> kind, State |-> state,
     ReadErrors |-> r, WriteErrors |-> w, ChecksumErrors |-> c]

(***************************************************************************)
(* parsePoolDisksFromLines, one loop iteration at a time.  The locals of   *)
(* the function are the record st:                                         *)
(*   isInsideDisks, minPadding, currentZpool, currentVdev, poolDisks       *)
(* with err the error of an early "return nil, err" and brk the "break".   *)
(***************************************************************************)

\* Faulty variant of ParseCounters: a field that is no integer counts as zero.
ParseCounters_zeroOnError(fields) ==
    [ok |-> TRUE, read |-> Atoi(fields[3]).val, write |-> Atoi(fields[4]).val,
     cksum |-> Atoi(fields[5]).val]

\* The three strconv.Atoi calls on fields[2], fields[3], fields[4].
ParseCounters(fields) ==
    LET r == Atoi(fields[3])
        w == Atoi(fields[4])
        c == Atoi(fields[5])
    IN  [ok |-> r.ok /\ w.ok /\ c.ok, read |-> r.val, write |-> w.val, cksum |-> c.val]

\* if strings.Contains(line, "NAME") && ... "STATE" && ... "CKSUM"
IsHeader(line) ==
    Contains(line, strNAME) /\ Contains(line, strSTATE) /\ Contains(line, strCKSUM)

\* Faulty variant of scanHeader: a line before the header sets the pool.
scanHeader_setsPool(st, line) ==
    IF IsHeader(line)
    THEN [st EXCEPT !.isInsideDisks = TRUE, !.minPadding = Padding(line)]
    ELSE IF Fields(line) # <<>> THEN [st EXCEPT !.currentZpool = Fields(line)[1]] ELSE st

\* !isInsideDisks: look for the header and take its indentation.
scanHeader(st, line) ==
    IF IsHeader(line)
    THEN [st EXCEPT !.isInsideDisks = TRUE, !.minPadding = Padding(line)]
    ELSE st

\* Faulty variant of zpoolRow: the pool row is emitted as a record too.
zpoolRow_emitsRecord(st, fields) ==
    IF Len(fields) > 0
    THEN [st EXCEPT !.currentZpool = fields[1],
                    !.poolDisks = Append(@,
                        PoolDisk(fields[1], <<>>, fields[1], "vdev", <<>>, 0, 0, 0))]
    ELSE st

\* currentPadding-minPadding == 0: zpool level.
zpoolRow(st, fields) ==
    IF Len(fields) > 0 THEN [st EXCEPT !.currentZpool = fields[1]] ELSE st

\* Faulty variant of spareRow: any row of two or more fields is a spare.
spareRow_anyShape(st, fields) ==
    IF Len(fields) >= 2
    THEN [st EXCEPT !.poolDisks =
            Append(@, PoolDisk(strSpares, <<>>, fields[1], "spare", fields[2], 0, 0, 0))]
    ELSE st

\* Faulty variant of spareRow: the spare is filed under the vdev seen last.
spareRow_keepsVdev(st, fields) ==
    IF Len(fields) = 2
    THEN [st EXCEPT !.poolDisks =
            Append(@, PoolDisk(strSpares, st.currentVdev, fields[1], "spare", fields[2],
                               0, 0, 0))]
    ELSE st

\* currentPadding-minPadding == 2 and currentZpool == "spares".
spareRow(st, fields) ==
    IF Len(fields) = 2
    THEN [st EXCEPT !.poolDisks =
            Append(@, PoolDisk(strSpares, <<>>, fields[1], "spare", fields[2], 0, 0, 0))]
    ELSE st

\* Faulty variant of vdevRow: the row is emitted but does not become the
\* current vdev.
vdevRow_keepsVdev(st, fields) ==
    IF Len(fields) = 5
    THEN LET c == ParseCounters(fields)
         IN  IF ~c.ok
             THEN [st EXCEPT !.err = ErrAtoi]
             ELSE [st EXCEPT !.poolDisks = Append(@,
                                 PoolDisk(st.currentZpool, fields[1], fields[1], "vdev",
                                          fields[2], c.read, c.write, c.cksum))]
    ELSE st

\* Faulty variant of vdevRow: a row of another shape is not emitted but
\* becomes the current vdev.
vdevRow_marksAnyRow(st, fields) ==
    IF Len(fields) = 5
    THEN LET c == ParseCounters(fields)
         IN  IF ~c.ok
             THEN [st EXCEPT !.currentVdev = fields[1], !.err = ErrAtoi]
             ELSE [st EXCEPT !.currentVdev = fields[1],
                             !.poolDisks = Append(@,
                                 PoolDisk(st.currentZpool, fields[1], fields[1], "vdev",
                                          fields[2], c.read, c.write, c.cksum))]
    ELSE IF Len(fields) > 0 THEN [st EXCEPT !.currentVdev = fields[1]] ELSE st

\* currentPadding-minPadding == 2 otherwise: vdevs.
vdevRow(st, fields) ==
    IF Len(fields) = 5
    THEN LET c == ParseCounters(fields)
         IN  IF ~c.ok
             THEN [st EXCEPT !.currentVdev = fields[1], !.err = ErrAtoi]
             ELSE [st EXCEPT !.currentVdev = fields[1],
                             !.poolDisks = Append(@,
                                 PoolDisk(st.currentZpool, fields[1], fields[1], "vdev",
                                          fields[2], c.read, c.write, c.cksum))]
    ELSE st

\* Faulty variant of diskRow: the record's vdev is the row's own name.
diskRow_ownVdev(st, fields) ==
    IF Len(fields) = 5
    THEN LET c == ParseCounters(fields)
         IN  IF ~c.ok
             THEN [st EXCEPT !.err = ErrAtoi]
             ELSE [st EXCEPT !.poolDisks = Append(@,
                                 PoolDisk(st.currentZpool, fields[1], fields[1], "disk",
                                          fields[2], c.read, c.write, c.cksum))]
    ELSE st

\* currentPadding-minPadding >= 4: physical device level.
diskRow(st, fields) ==
    IF Len(fields) = 5
    THEN LET c == ParseCounters(fields)
         IN  IF ~c.ok
             THEN [st EXCEPT !.err = ErrAtoi]
             ELSE [st EXCEPT !.poolDisks = Append(@,
                                 PoolDisk(st.currentZpool, st.currentVdev, fields[1], "disk",
                                          fields[2], c.read, c.write, c.cksum))]
    ELSE st

\* Faulty variant of blockLine: a line indented less than the header is passed
\* over and the loop goes on.
blockLine_noBreak(st, line) ==
    LET currentPadding == Padding(line)
        fields         == Fields(line)
        depth          == currentPadding - st.minPadding
    IN  IF currentPadding >= st.minPadding
        THEN IF depth = 0 THEN zpoolRow(st, fields)
             ELSE IF depth = 2
                  THEN IF st.currentZpool = strSpares
                       THEN spareRow(st, fields)
                       ELSE vdevRow(st, fields)
                  ELSE IF depth >= 4 THEN diskRow(st, fields)
                       ELSE st
        ELSE st

\* isInsideDisks: classify the line by its indentation relative to the header.
blockLine(st, line) ==
    LET currentPadding == Padding(line)
        fields         == Fields(line)
        depth          == currentPadding - st.minPadding
    IN  IF currentPadding >= st.minPadding
        THEN IF depth = 0 THEN zpoolRow(st, fields)
             ELSE IF depth = 2
                  THEN IF st.currentZpool = strSpares
                       THEN spareRow(st, fields)
                       ELSE vdevRow(st, fields)
                  ELSE IF depth >= 4 THEN diskRow(st, fields)
                       ELSE st
        ELSE [st EXCEPT !.brk = TRUE]

\* The body of "for _, line := range lines".
parseLine(st, line) ==
    IF ~st.isInsideDisks THEN scanHeader(st, line) ELSE blockLine(st, line)

\* The locals as the function initialises them.
parseInit ==
    [isInsideDisks |-> FALSE, minPadding |-> 0, currentZpool |-> <<>>,
     currentVdev |-> <<>>, poolDisks |-> <<>>, err |-> NoErr, brk |-> FALSE]

\* The loop of parsePoolDisksFromLines from line i of ls on, left at the
\* first "return nil, err" or "break".
RECURSIVE parseFrom(_, _, _)
parseFrom(st, ls, i) ==
    IF i > Len(ls) \/ st.err # NoErr \/ st.brk
    THEN st
    ELSE parseFrom(parseLine(st, ls[i]), ls, i + 1)

\* parsePoolDisksFromLines(ls): the records and the error it returns.
parsePoolDisksFromLines(ls) ==
    LET st == parseFrom(parseInit, ls, 1)
    IN  IF st.err # NoErr
        THEN [disks |-> <<>>, err |-> st.err]
        ELSE [disks |-> st.poolDisks, err |-> NoErr]

(***************************************************************************)
(* The reports the external command may print.  A row of `zpool status`    *)
(* is a tab, the indentation of its depth, and its fields.                 *)
(***************************************************************************)
RECURSIVE Join(_)
Join(fields) ==
    IF fields = <<>> THEN <<>>
    ELSE IF Len(fields) = 1 THEN Head(fields)
         ELSE Head(fields) \o <<" ", " ">> \o Join(Tail(fields))

Row(pad, fields) == <<"\t">> \o Spaces(pad) \o Join(fields)

tONLINE   == <<"O", "N", "L", "I", "N", "E">>
tDEGRADED == <<"D", "E", "G", "R", "A", "D", "E", "D">>
tFAULTED  == <<"F", "A", "U", "L", "T", "E", "D">>
tUNAVAIL  == <<"U", "N", "A", "V", "A", "I", "L">>
tAVAIL    == <<"A", "V", "A", "I", "L">>
tREAD     == <<"R", "E", "A", "D">>
tWRITE    == <<"W", "R", "I", "T", "E">>
tTank     == <<"t", "a", "n", "k">>
tP2       == <<"p", "2">>
tM0       == <<"m", "0">>
tM1       == <<"m", "1">>
tM2       == <<"m", "2">>
tSda      == <<"s", "d", "a">>
tSdb      == <<"s", "d", "b">>
tSdc      == <<"s", "d", "c">>
tSdd      == <<"s", "d", "d">>
tSde      == <<"s", "d", "e">>
tSdj      == <<"s", "d", "j">>

rHeader   == Row(0, <<strNAME, strSTATE, tREAD, tWRITE, strCKSUM>>)
rHeaderIn == Row(2, <<strNAME, strSTATE, tREAD, tWRITE, strCKSUM>>)
rPool1    == Row(0, <<tTank, tONLINE, <<"0">>, <<"0">>, <<"0">> >>)
rPool2    == Row(0, <<tP2, tDEGRADED, <<"0">>, <<"0">>, <<"0">> >>)
rSpares0  == Row(0, <<strSpares>>)
rSpares1  == Row(2, <<strSpares>>)
rVdev0    == Row(2, <<tM0, tONLINE, <<"1">>, <<"1", "4">>, <<"2", "7">> >>)
rVdev1    == Row(2, <<tM1, tDEGRADED, <<"0">>, <<"0">>, <<"0">> >>)
rVdevBad  == Row(2, <<tM2, tONLINE, <<"x">>, <<"0">>, <<"0">> >>)
rDisk     == Row(4, <<tSda, tONLINE, <<"2">>, <<"1", "5">>, <<"2", "8">> >>)
rDiskNeg  == Row(4, <<tSdb, tFAULTED, <<"-", "1">>, <<"0">>, <<"+", "3">> >>)
rDiskBad  == Row(4, <<tSdb, tONLINE, <<"0">>, <<"0">>, <<"1", "x">> >>)
rDiskDeep == Row(6, <<tSdc, tONLINE, <<"3">>, <<"0">>, <<"0">> >>)
rDiskNote == Row(4, <<tSdd, tUNAVAIL, <<"0">>, <<"0">>, <<"0">>,
                      <<"c", "a", "n", "n", "o", "t">>, <<"o", "p", "e", "n">> >>)
rOdd      == Row(3, <<tSde, tONLINE, <<"x">>, <<"0">>, <<"0">> >>)
rSpare    == Row(2, <<tSdj, tAVAIL>>)
rBlank    == <<>>
rErrors   == <<"e", "r", "r", "o", "r", "s", ":", " ", "N", "o", " ", "k", "n", "o", "w", "n", " ", "d", "a", "t", "a", " ", "e", "r", "r", "o", "r", "s">>

RowAlphabet ==
    {rHeader, rHeaderIn, rPool1, rPool2, rSpares0, rSpares1, rVdev0, rVdev1, rVdevBad,
     rDisk, rDiskNeg, rDiskBad, rDiskDeep, rDiskNote, rOdd, rSpare, rBlank, rErrors}

\* The longest free tail of rows appended to a prefix.
MaxBody == 2

Bodies == UNION {[1..n -> RowAlphabet] : n \in 0..MaxBody}

Prefixes ==
    {<<>>,
     <<rHeader, rPool1>>,
     <<rHeader, rPool1, rVdev0, rDisk>>,
     <<rHeader, rPool1, rVdev0, rDisk, rSpares0>>,
     <<rHeader, rPool1, rVdev0, rDisk, rSpares0, rSpare>>}

Reports == {p \o b : p \in Prefixes, b \in Bodies}

\* The report of TestZFSCommandLineParse, split at its newlines.
SampleReport ==
    <<
     <<"p", "o", "o", "l", ":", " ", "s", "s", "d", "_", "t", "a", "n", "k">>,
     <<" ", "s", "t", "a", "t", "e", ":", " ", "O", "N", "L", "I", "N", "E">>,
     <<" ", " ", "s", "c", "a", "n", ":", " ", "s", "c", "r", "u", "b", " ", "r", "e", "p", "a", "i", "r", "e", "d", " ", "0", "B", " ", "i", "n", " ", "0", "2", ":", "4", "4", ":", "5", "2", " ", "w", "i", "t", "h", " ", "0", " ", "e", "r", "r", "o", "r", "s", " ", "o", "n", " ", "S", "u", "n", " ", "A", "u", "g", " ", "1", "4", " ", "0", "3", ":", "0", "8", ":", "5", "4", " ", "2", "0", "2", "2">>,
     <<"c", "o", "n", "f", "i", "g", ":">>,
     <<>>,
     <<" ", " ", " ", " ", " ", " ", " ", " ", "N", "A", "M", "E", " ", " ", " ", " ", " ", " ", " ", " ", "S", "T", "A", "T", "E", " ", " ", " ", " ", " ", "R", "E", "A", "D", " ", "W", "R", "I", "T", "E", " ", "C", "K", "S", "U", "M">>,
     <<" ", " ", " ", " ", " ", " ", " ", " ", "s", "s", "d", "_", "t", "a", "n", "k", " ", " ", " ", " ", "O", "N", "L", "I", "N", "E", " ", " ", " ", " ", " ", " ", " ", "0", " ", " ", " ", " ", "1", "3", " ", " ", " ", " ", "2", "6">>,
     <<" ", " ", " ", " ", " ", " ", " ", " ", " ", " ", "m", "i", "r", "r", "o", "r", "-", "0", " ", " ", "O", "N", "L", "I", "N", "E", " ", " ", " ", " ", " ", " ", " ", "1", " ", " ", " ", " ", "1", "4", " ", " ", " ", " ", "2", "7">>,
     <<" ", " ", " ", " ", " ", " ", " ", " ", " ", " ", " ", " ", "s", "d", "c", " ", " ", " ", " ", " ", "O", "N", "L", "I", "N", "E", " ", " ", " ", " ", " ", " ", " ", "2", " ", " ", " ", " ", "1", "5", " ", " ", " ", " ", "2", "8">>,
     <<" ", " ", " ", " ", " ", " ", " ", " ", " ", " ", " ", " ", "s", "d", "a", " ", " ", " ", " ", " ", "O", "N", "L", "I", "N", "E", " ", " ", " ", " ", " ", " ", " ", "3", " ", " ", " ", " ", "1", "6", " ", " ", " ", " ", "2", "9">>,
     <<" ", " ", " ", " ", " ", " ", " ", " ", " ", " ", "m", "i", "r", "r", "o", "r", "-", "1", " ", " ", "O", "N", "L", "I", "N", "E", " ", " ", " ", " ", " ", " ", " ", "4", " ", " ", " ", " ", "1", "7", " ", " ", " ", " ", "3", "0">>,
     <<" ", " ", " ", " ", " ", " ", " ", " ", " ", " ", " ", " ", "s", "d", "h", " ", " ", " ", " ", " ", "O", "N", "L", "I", "N", "E", " ", " ", " ", " ", " ", " ", " ", "5", " ", " ", " ", " ", "1", "8", " ", " ", " ", " ", "3", "1">>,
     <<" ", " ", " ", " ", " ", " ", " ", " ", " ", " ", " ", " ", "s", "d", "d", " ", " ", " ", " ", " ", "O", "N", "L", "I", "N", "E", " ", " ", " ", " ", " ", " ", " ", "6", " ", " ", " ", " ", "1", "9", " ", " ", " ", " ", "3", "2">>,
     <<" ", " ", " ", " ", " ", " ", " ", " ", " ", " ", "m", "i", "r", "r", "o", "r", "-", "2", " ", " ", "O", "N", "L", "I", "N", "E", " ", " ", " ", " ", " ", " ", " ", "7", " ", " ", " ", " ", "2", "0", " ", " ", " ", " ", "3", "3">>,
     <<" ", " ", " ", " ", " ", " ", " ", " ", " ", " ", " ", " ", "s", "d", "e", " ", " ", " ", " ", " ", "O", "N", "L", "I", "N", "E", " ", " ", " ", " ", " ", " ", " ", "8", " ", " ", " ", " ", "2", "1", " ", " ", " ", " ", "3", "4">>,
     <<" ", " ", " ", " ", " ", " ", " ", " ", " ", " ", " ", " ", "s", "d", "f", " ", " ", " ", " ", " ", "O", "N", "L", "I", "N", "E", " ", " ", " ", " ", " ", " ", " ", "9", " ", " ", " ", " ", "2", "2", " ", " ", " ", " ", "3", "5">>,
     <<" ", " ", " ", " ", " ", " ", " ", " ", " ", " ", "m", "i", "r", "r", "o", "r", "-", "3", " ", " ", "O", "N", "L", "I", "N", "E", " ", " ", " ", " ", " ", " ", "1", "0", " ", " ", " ", " ", "2", "3", " ", " ", " ", " ", "3", "6">>,
     <<" ", " ", " ", " ", " ", " ", " ", " ", " ", " ", " ", " ", "s", "d", "g", " ", " ", " ", " ", " ", "O", "N", "L", "I", "N", "E", " ", " ", " ", " ", " ", " ", "1", "1", " ", " ", " ", " ", "2", "4", " ", " ", " ", " ", "3", "7">>,
     <<" ", " ", " ", " ", " ", " ", " ", " ", " ", " ", " ", " ", "s", "d", "i", " ", " ", " ", " ", " ", "O", "N", "L", "I", "N", "E", " ", " ", " ", " ", " ", " ", "1", "2", " ", " ", " ", " ", "2", "5", " ", " ", " ", " ", "3", "8">>,
     <<" ", " ", " ", " ", " ", " ", " ", " ", "s", "p", "a", "r", "e", "s">>,
     <<" ", " ", " ", " ", " ", " ", " ", " ", " ", " ", "s", "d", "j", " ", " ", " ", " ", " ", " ", " ", "A", "V", "A", "I", "L">>,
     <<>>,
     <<"e", "r", "r", "o", "r", "s", ":", " ", "N", "o", " ", "k", "n", "o", "w", "n", " ", "d", "a", "t", "a", " ", "e", "r", "r", "o", "r", "s">>,
     <<>>
    >>

\* The expectedOutput of TestZFSCommandLineParse.
SampleExpected ==
    <<
     PoolDisk(<<"s", "s", "d", "_", "t", "a", "n", "k">>, <<"m", "i", "r", "r", "o", "r", "-", "0">>, <<"m", "i", "r", "r", "o", "r", "-", "0">>, "vdev", tONLINE, 1, 14, 27),
     PoolDisk(<<"s", "s", "d", "_", "t", "a", "n", "k">>, <<"m", "i", "r", "r", "o", "r", "-", "0">>, <<"s", "d", "c">>, "disk", tONLINE, 2, 15, 28),
     PoolDisk(<<"s", "s", "d", "_", "t", "a", "n", "k">>, <<"m", "i", "r", "r", "o", "r", "-", "0">>, <<"s", "d", "a">>, "disk", tONLINE, 3, 16, 29),
     PoolDisk(<<"s", "s", "d", "_", "t", "a", "n", "k">>, <<"m", "i", "r", "r", "o", "r", "-", "1">>, <<"m", "i", "r", "r", "o", "r", "-", "1">>, "vdev", tONLINE, 4, 17, 30),
     PoolDisk(<<"s", "s", "d", "_", "t", "a", "n", "k">>, <<"m", "i", "r", "r", "o", "r", "-", "1">>, <<"s", "d", "h">>, "disk", tONLINE, 5, 18, 31),
     PoolDisk(<<"s", "s", "d", "_", "t", "a", "n", "k">>, <<"m", "i", "r", "r", "o", "r", "-", "1">>, <<"s", "d", "d">>, "disk", tONLINE, 6, 19, 32),
     PoolDisk(<<"s", "s", "d", "_", "t", "a", "n", "k">>, <<"m", "i", "r", "r", "o", "r", "-", "2">>, <<"m", "i", "r", "r", "o", "r", "-", "2">>, "vdev", tONLINE, 7, 20, 33),
     PoolDisk(<<"s", "s", "d", "_", "t", "a", "n", "k">>, <<"m", "i", "r", "r", "o", "r", "-", "2">>, <<"s", "d", "e">>, "disk", tONLINE, 8, 21, 34),
     PoolDisk(<<"s", "s", "d", "_", "t", "a", "n", "k">>, <<"m", "i", "r", "r", "o", "r", "-", "2">>, <<"s", "d", "f">>, "disk", tONLINE, 9, 22, 35),
     PoolDisk(<<"s", "s", "d", "_", "t", "a", "n", "k">>, <<"m", "i", "r", "r", "o", "r", "-", "3">>, <<"m", "i", "r", "r", "o", "r", "-", "3">>, "vdev", tONLINE, 10, 23, 36),
     PoolDisk(<<"s", "s", "d", "_", "t", "a", "n", "k">>, <<"m", "i", "r", "r", "o", "r", "-", "3">>, <<"s", "d", "g">>, "disk", tONLINE, 11, 24, 37),
     PoolDisk(<<"s", "s", "d", "_", "t", "a", "n", "k">>, <<"m", "i", "r", "r", "o", "r", "-", "3">>, <<"s", "d", "i">>, "disk", tONLINE, 12, 25, 38),
     PoolDisk(strSpares, <<>>, <<"s", "d", "j">>, "spare", tAVAIL, 0, 0, 0)
    >>

\* The status reports of two pools, one after the other, as the command
\* prints them for a host with two pools.
rPoolLine(name) == <<" ", " ">> \o <<"p", "o", "o", "l", ":", " ">> \o name
rStateLine(state) == <<" ">> \o <<"s", "t", "a", "t", "e", ":", " ">> \o state
rConfig == <<"c", "o", "n", "f", "i", "g", ":">>

TwoPoolReport ==
    <<rPoolLine(tTank), rStateLine(tONLINE), rConfig, rBlank,
      rHeader, rPool1, rVdev0, rDisk, rBlank, rErrors, rBlank,
      rPoolLine(tP2), rStateLine(tDEGRADED), rConfig, rBlank,
      rHeader, rPool2, rVdev1, rDiskDeep, rBlank, rErrors>>

\* Reports with a line of the preamble before the header: a line that would
\* be a row, a marker or the end of the block if it came after the header.
PreambleRows == {rPool2, rSpares0, rVdevBad, rDiskBad, rErrors}

PreambleReports ==
    {<<a>> \o p \o b : a \in PreambleRows,
                       p \in {<<rHeader>>, <<rHeader, rPool1, rVdev0>>},
                       b \in {c \in Bodies : Len(c) < MaxBody}}

Inputs == Reports \cup PreambleReports \cup {SampleReport, TwoPoolReport}

(***************************************************************************)
(* poolDiskCollector.update: the observations of one record.               *)
(***************************************************************************)
Metric(name, value, labelValues) ==
    [name |-> name, value |-> value, labels |-> labelValues]

\* labelValues := []string{disk.Zpool, disk.Vdev, disk.State, disk.Kind, disk.Name}
LabelValues(disk) == <<disk.Zpool, disk.Vdev, disk.State, disk.Kind, disk.Name>>

\* Faulty variant of diskMetrics: the error counters are sent for spares as well.
diskMetrics_spareCounters(disk) ==
    <<Metric("zfs_disk_status", 1, LabelValues(disk)),
      Metric("zfs_disk_read_error", disk.ReadErrors, LabelValues(disk)),
      Metric("zfs_disk_write_error", disk.WriteErrors, LabelValues(disk)),
      Metric("zfs_disk_checksum_error", disk.ChecksumErrors, LabelValues(disk))>>

\* The body of "for _, disk := range disks": what is sent on ch, in order.
diskMetrics(disk) ==
    <<Metric("zfs_disk_status", 1, LabelValues(disk))>> \o
    (IF disk.Kind # "spare"
     THEN <<Metric("zfs_disk_read_error", disk.ReadErrors, LabelValues(disk)),
            Metric("zfs_disk_write_error", disk.WriteErrors, LabelValues(disk)),
            Metric("zfs_disk_checksum_error", disk.ChecksumErrors, LabelValues(disk))>>
     ELSE <<>>)

(***************************************************************************)
(* State.                                                                  *)
(*   out      what `zpool status -L` printed, line by line                 *)
(*   lines    the lines handed to parsePoolDisksFromLines                  *)
(*   idx      the position of the parser's loop in lines                   *)
(*   isInsideDisks .. poolDisks   the parser's locals                      *)
(*   brk      the parser's loop was left by break                          *)
(*   disks, err   what client.PoolDisks() returned to update               *)
(*   di       the position of update's loop in disks                       *)
(*   ch       the metrics sent on the sink channel so far                  *)
(*   uret     the error update returned                                    *)
(*   pc       where the collection cycle is                                *)
(***************************************************************************)
(***************************************************************************)
(* The pool collector: poolImpl.Properties, the property store and         *)
(* poolCollector.updatePoolMetrics.                                        *)
(***************************************************************************)

\* How many pools update is called with.
NumPools == 2

PoolNames == <<"tank", "p2", "p3", "p4">>

\* The `pools` argument of update.
pools == SubSeq(PoolNames, 1, NumPools)

Workers == 1..Len(pools)

ErrInvalidOutput == "ErrInvalidOutput"
ErrUnsupportedProperty == "errUnsupportedProperty"
ErrTransform == "transform error"

\* poolProperties.store: the registered keys with the name and the
\* transform of each.
poolProperties ==
    [allocated     |-> [name |-> "allocated_bytes",     transform |-> "transformNumeric"],
     dedupratio    |-> [name |-> "deduplication_ratio", transform |-> "transformMultiplier"],
     capacity      |-> [name |-> "capacity_ratio",      transform |-> "transformPercentage"],
     expandsize    |-> [name |-> "expand_size_bytes",   transform |-> "transformNumeric"],
     fragmentation |-> [name |-> "fragmentation_ratio", transform |-> "transformPercentage"],
     free          |-> [name |-> "free_bytes",          transform |-> "transformNumeric"],
     freeing       |-> [name |-> "freeing_bytes",       transform |-> "transformNumeric"],
     health        |-> [name |-> "health",              transform |-> "transformHealthCode"],
     leaked        |-> [name |-> "leaked_bytes",        transform |-> "transformNumeric"],
     readonly      |-> [name |-> "readonly",            transform |-> "transformBool"],
     size          |-> [name |-> "size_bytes",          transform |-> "transformNumeric"]]

\* The raw values the property reader may print.
NumericValue ==
    ("0" :> 0) @@ ("1" :> 1) @@ ("7" :> 7) @@ ("1024" :> 1024) @@ ("2048" :> 2048)

HealthCode ==
    ("ONLINE" :> 0) @@ ("DEGRADED" :> 1) @@ ("FAULTED" :> 2) @@ ("OFFLINE" :> 3)
    @@ ("UNAVAIL" :> 4) @@ ("REMOVED" :> 5) @@ ("SUSPENDED" :> 6)

BoolValue == ("on" :> 1) @@ ("yes" :> 1) @@ ("off" :> 0) @@ ("no" :> 0)

\* A transform of the Property Transformer on raw value v: [ok, val], the
\* value a ratio num/den.
Transform(name, v) ==
    LET table == CASE name = "transformHealthCode" -> HealthCode
                   [] name = "transformBool" -> BoolValue
                   [] OTHER -> NumericValue
    IN  IF v \in DOMAIN table
        THEN [ok |-> TRUE,
              val |-> [num |-> table[v],
                       den |-> IF name = "transformPercentage" THEN 100 ELSE 1]]
        ELSE [ok |-> FALSE, val |-> [num |-> 0, den |-> 1]]

\* propertyStore.find: the descriptor of key k; a key that is not registered
\* yields errUnsupportedProperty and a descriptor with transform fb.
find(k, fb) ==
    IF k \in DOMAIN poolProperties
    THEN [prop |-> poolProperties[k], err |-> NoErr]
    ELSE [prop |-> [name |-> k, transform |-> fb], err |-> ErrUnsupportedProperty]

\* property.push: transform the value and send the observation; a failed
\* transform sends nothing and is returned.
push(prop, v, labelValues) ==
    LET r == Transform(prop.transform, v)
    IN  IF r.ok
        THEN [err |-> NoErr, sent |-> <<Metric(prop.name, r.val, labelValues)>>]
        ELSE [err |-> ErrTransform, sent |-> <<>>]

\* Faulty variant of processLine: a three-field row of another pool is
\* stored before it is rejected.
processLine_storesRejected(p, pool, line) ==
    IF Len(line) # 3
    THEN [properties |-> p, err |-> ErrInvalidOutput]
    ELSE [properties |-> [k \in DOMAIN p \cup {line[2]} |->
                             IF k = line[2] THEN line[3] ELSE p[k]],
          err |-> IF line[1] # pool THEN ErrInvalidOutput ELSE NoErr]

\* poolPropertiesImpl.processLine on the map p: [properties, err].
processLine(p, pool, line) ==
    IF Len(line) # 3 \/ line[1] # pool
    THEN [properties |-> p, err |-> ErrInvalidOutput]
    ELSE [properties |-> [k \in DOMAIN p \cup {line[2]} |->
                             IF k = line[2] THEN line[3] ELSE p[k]],
          err |-> NoErr]

\* execute: every row the command prints goes to the handler, whose first
\* error is returned; then the command's exit status is.
RECURSIVE execute(_, _, _, _)
execute(p, pool, cmd, i) ==
    IF i > Len(cmd.rows)
    THEN [properties |-> p, err |-> IF cmd.exit = "ok" THEN NoErr ELSE ErrExec]
    ELSE LET r == processLine(p, pool, cmd.rows[i])
         IN  IF r.err # NoErr THEN r ELSE execute(r.properties, pool, cmd, i + 1)

\* poolImpl.Properties: a fresh handler, filled by execute.
Properties(pool, cmd) == execute(<<>>, pool, cmd, 1)

\* What `zpool get` may do for a pool: the rows it prints and how it exits.
Commands(pool) ==
    {[rows |-> <<<<pool, "size", "1024">>, <<pool, "health", "ONLINE">>>>, exit |-> "ok"],
     [rows |-> <<<<pool, "size", "1024">>, <<pool, "health", "ONLINE">>>>, exit |-> "fail"],
     [rows |-> <<<<pool, "size", "x">>, <<pool, "health", "DEGRADED">>>>, exit |-> "ok"],
     [rows |-> <<<<pool, "size", "1024">>, <<"other", "health", "ONLINE">>>>, exit |-> "ok"],
     [rows |-> <<<<pool, "size", "1024">>, <<pool, "health">>>>, exit |-> "ok"],
     [rows |-> <<<<pool, "size", "1024">>, <<pool, "bogus", "7">>>>, exit |-> "ok"],
     [rows |-> <<<<pool, "size", "1">>, <<pool, "size", "2048">>>>, exit |-> "ok"],
     [rows |-> <<<<pool, "size", "1024", "-">>, <<pool, "health", "ONLINE">>>>, exit |-> "ok"]}

\* No command has run yet.
NoCmd == [rows |-> <<>>, exit |-> "none"]

\* The transforms the descriptor of an unregistered key may carry.
Fallbacks == {"transformNumeric", "transformBool"}

\* Faulty variant of selectErr: the error reported last is taken.
selectErr_last(q) == IF q # <<>> THEN q[Len(q)] ELSE NoErr

\* Faulty variant of errChanCap: the buffer is one slot short.
errChanCap_oneShort == Len(pools) - 1

\* errChan := make(chan error, len(pools)): the capacity of the buffer.
errChanCap == Len(pools)

\* The error update takes from errChan q: select { case err := <-errChan }.
selectErr(q) == IF q # <<>> THEN Head(q) ELSE NoErr

VARIABLES out, lines, idx, isInsideDisks, minPadding, currentZpool, currentVdev,
          poolDisks, brk, disks, err, di, ch, uret, pc

(***************************************************************************)
(* State of poolCollector.update and its workers (worker w is the          *)
(* goroutine of pools[w]).                                                 *)
(*   upc      where update is: "off", "launch", "select", "returned"       *)
(*   ui       the position of update's loop in pools                       *)
(*   wg       the WaitGroup counter                                        *)
(*   errChan  the buffered error channel, oldest first                     *)
(*   sentErrs every error sent on errChan with its worker, in send order   *)
(*   pret     the error update returned                                    *)
(*   wpc      where each worker is: "idle", "fetch", "range", "report",    *)
(*            "done", "exited"                                             *)
(*   wprops   the property map Properties() returned to each worker        *)
(*   wleft    the keys each worker's range loop has not visited yet        *)
(*   werr     the error each worker's updatePoolMetrics returned           *)
(*   wlog     the (pool, key) pairs warned about as unsupported            *)
(*   fallback the transform of the descriptor find returns for a key that  *)
(*            is not registered                                            *)
(*   wcmd     what the property reader did for each worker's pool          *)
(*   timeout  the overall deadline of the collection cycle has passed      *)
(*   sink     "open" while the consumer of ch takes what is sent to it,    *)
(*            "closed" once it has stopped                                 *)
(***************************************************************************)
VARIABLES upc, ui, wg, errChan, sentErrs, pret, wpc, wprops, wleft, werr, wlog,
          fallback, wcmd, timeout, sink

parseVars == <<lines, idx, isInsideDisks, minPadding, currentZpool, currentVdev,
               poolDisks, brk>>
diskVars == <<out, parseVars, disks, err, di, uret, pc>>
poolVars == <<upc, ui, wg, errChan, sentErrs, pret, wpc, wprops, wleft, werr, wlog,
              fallback, wcmd, timeout, sink>>
vars == <<diskVars, ch, poolVars>>

\* The pool collector's state when update is entered (upc0 = "launch") or
\* is not running (upc0 = "off"), the store's fallback being one of fbs.
PoolVarsInit(upc0, fbs) ==
    /\ upc = upc0
    /\ ui = 1
    /\ wg = 0
    /\ errChan = <<>>
    /\ sentErrs = <<>>
    /\ pret = NoErr
    /\ wpc = [w \in Workers |-> "idle"]
    /\ wprops = [w \in Workers |-> <<>>]
    /\ wleft = [w \in Workers |-> {}]
    /\ werr = [w \in Workers |-> NoErr]
    /\ wlog = {}
    /\ fallback \in fbs
    /\ wcmd = [w \in Workers |-> NoCmd]
    /\ timeout = FALSE
    /\ sink = "open"

Init ==
    /\ out \in Inputs
    /\ lines = <<>>
    /\ idx = 1
    /\ isInsideDisks = FALSE
    /\ minPadding = 0
    /\ currentZpool = <<>>
    /\ currentVdev = <<>>
    /\ poolDisks = <<>>
    /\ brk = FALSE
    /\ disks = <<>>
    /\ err = NoErr
    /\ di = 1
    /\ ch = <<>>
    /\ uret = NoErr
    /\ pc = "call"
    /\ PoolVarsInit("off", {"transformNumeric"})

\* poolDisks(): the command cannot be started or exits non-zero.
PoolDisksExecFail ==
    /\ pc = "call"
    /\ disks' = <<>>
    /\ err' = ErrExec
    /\ pc' = "got"
    /\ UNCHANGED <<out, parseVars, di, ch, uret>>
    /\ UNCHANGED poolVars

\* poolDisks(): every line read has its tabs expanded, then the parser is
\* entered with its locals initialised.
PoolDisksScan ==
    /\ pc = "call"
    /\ lines' = [i \in 1..Len(out) |-> ExpandTabs(out[i])]
    /\ idx' = 1
    /\ isInsideDisks' = parseInit.isInsideDisks
    /\ minPadding' = parseInit.minPadding
    /\ currentZpool' = parseInit.currentZpool
    /\ currentVdev' = parseInit.currentVdev
    /\ poolDisks' = parseInit.poolDisks
    /\ brk' = FALSE
    /\ pc' = "parse"
    /\ UNCHANGED <<out, disks, err, di, ch, uret>>
    /\ UNCHANGED poolVars

\* One iteration of the parser's loop; a malformed counter returns nil, err.
ParseLine ==
    /\ pc = "parse"
    /\ ~brk
    /\ idx <= Len(lines)
    /\ LET st == [isInsideDisks |-> isInsideDisks, minPadding |-> minPadding,
                  currentZpool |-> currentZpool, currentVdev |-> currentVdev,
                  poolDisks |-> poolDisks, err |-> NoErr, brk |-> FALSE]
           n  == parseLine(st, lines[idx])
       IN  /\ isInsideDisks' = n.isInsideDisks
           /\ minPadding' = n.minPadding
           /\ currentZpool' = n.currentZpool
           /\ currentVdev' = n.currentVdev
           /\ poolDisks' = n.poolDisks
           /\ brk' = n.brk
           /\ idx' = idx + 1
           /\ IF n.err # NoErr
              THEN disks' = <<>> /\ err' = n.err /\ pc' = "got"
              ELSE UNCHANGED <<disks, err, pc>>
    /\ UNCHANGED <<out, lines, di, ch, uret>>
    /\ UNCHANGED poolVars

\* The loop ended (no line left, or break): return poolDisks, nil.
ParseReturn ==
    /\ pc = "parse"
    /\ (brk \/ idx > Len(lines))
    /\ disks' = poolDisks
    /\ err' = NoErr
    /\ pc' = "got"
    /\ UNCHANGED <<out, parseVars, di, ch, uret>>
    /\ UNCHANGED poolVars

\* update: if err != nil { return err }
UpdateFail ==
    /\ pc = "got"
    /\ err # NoErr
    /\ uret' = err
    /\ pc' = "done"
    /\ UNCHANGED <<out, parseVars, disks, err, di, ch>>
    /\ UNCHANGED poolVars

\* update: one iteration of the loop over disks.
UpdatePublish ==
    /\ pc = "got"
    /\ err = NoErr
    /\ di <= Len(disks)
    /\ ch' = ch \o diskMetrics(disks[di])
    /\ di' = di + 1
    /\ UNCHANGED <<out, parseVars, disks, err, uret, pc>>
    /\ UNCHANGED poolVars

\* update: return nil
UpdateReturn ==
    /\ pc = "got"
    /\ err = NoErr
    /\ di > Len(disks)
    /\ uret' = NoErr
    /\ pc' = "done"
    /\ UNCHANGED <<out, parseVars, disks, err, di, ch>>
    /\ UNCHANGED poolVars

Next ==
    \/ PoolDisksExecFail
    \/ PoolDisksScan
    \/ ParseLine
    \/ ParseReturn
    \/ UpdateFail
    \/ UpdatePublish
    \/ UpdateReturn

Spec == Init /\ [][Next]_vars

(***************************************************************************)
(* poolCollector.update and its workers.                                   *)
(***************************************************************************)
PoolInit ==
    /\ out = <<>>
    /\ lines = <<>>
    /\ idx = 1
    /\ isInsideDisks = FALSE
    /\ minPadding = 0
    /\ currentZpool = <<>>
    /\ currentVdev = <<>>
    /\ poolDisks = <<>>
    /\ brk = FALSE
    /\ disks = <<>>
    /\ err = NoErr
    /\ di = 1
    /\ ch = <<>>
    /\ uret = NoErr
    /\ pc = "off"
    /\ PoolVarsInit("launch", Fallbacks)

\* Faulty variant of UpdateLaunch: the loop passes the last pool without
\* starting its worker.
UpdateLaunch_skipsLast ==
    /\ upc = "launch"
    /\ ui <= Len(pools)
    /\ wg' = IF ui < Len(pools) THEN wg + 1 ELSE wg
    /\ wpc' = IF ui < Len(pools) THEN [wpc EXCEPT ![ui] = "fetch"] ELSE wpc
    /\ ui' = ui + 1
    /\ UNCHANGED <<diskVars, ch, upc, errChan, sentErrs, pret, wprops, wleft, werr, wlog,
                   fallback, wcmd, timeout, sink>>

\* update: wg.Add(1); go func(pool) {...}(pool)
UpdateLaunch ==
    /\ upc = "launch"
    /\ ui <= Len(pools)
    /\ wg' = wg + 1
    /\ wpc' = [wpc EXCEPT ![ui] = "fetch"]
    /\ ui' = ui + 1
    /\ UNCHANGED <<diskVars, ch, upc, errChan, sentErrs, pret, wprops, wleft, werr, wlog,
                   fallback, wcmd, timeout, sink>>

\* Faulty variant of UpdateWait: the wait is over as soon as one worker has
\* exited.
UpdateWait_firstExit ==
    /\ upc = "launch"
    /\ ui > Len(pools)
    /\ \E w \in Workers : wpc[w] = "exited"
    /\ upc' = "select"
    /\ UNCHANGED <<diskVars, ch, ui, wg, errChan, sentErrs, pret, wpc, wprops, wleft, werr,
                   wlog, fallback, wcmd, timeout, sink>>

\* update: wg.Wait() returns once the counter is zero.
UpdateWait ==
    /\ upc = "launch"
    /\ ui > Len(pools)
    /\ wg = 0
    /\ upc' = "select"
    /\ UNCHANGED <<diskVars, ch, ui, wg, errChan, sentErrs, pret, wpc, wprops, wleft, werr,
                   wlog, fallback, wcmd, timeout, sink>>

\* update: select { case err := <-errChan: return err; default: return nil }
UpdateSelect ==
    /\ upc = "select"
    /\ pret' = selectErr(errChan)
    /\ errChan' = IF errChan # <<>> THEN Tail(errChan) ELSE errChan
    /\ upc' = "returned"
    /\ UNCHANGED <<diskVars, ch, ui, wg, sentErrs, wpc, wprops, wleft, werr, wlog, fallback,
                   wcmd, timeout, sink>>

\* updatePoolMetrics: props, err := p.Properties(c.props...), and "return err"
\* if it failed.
WorkerFetch(w) ==
    /\ wpc[w] = "fetch"
    /\ \E cmd \in Commands(pools[w]) :
          LET r == Properties(pools[w], cmd)
          IN  /\ wcmd' = [wcmd EXCEPT ![w] = cmd]
              /\ wprops' = [wprops EXCEPT ![w] = r.properties]
              /\ IF r.err # NoErr
                 THEN /\ werr' = [werr EXCEPT ![w] = r.err]
                      /\ wpc' = [wpc EXCEPT ![w] = "report"]
                      /\ UNCHANGED wleft
                 ELSE /\ wleft' = [wleft EXCEPT ![w] = DOMAIN r.properties]
                      /\ wpc' = [wpc EXCEPT ![w] = "range"]
                      /\ UNCHANGED werr
    /\ UNCHANGED <<diskVars, ch, upc, ui, wg, errChan, sentErrs, pret, wlog, fallback,
                   timeout, sink>>

\* updatePoolMetrics: one iteration of "for k, v := range props.Properties()",
\* the map handing out its keys in any order; the send of push waits for the
\* consumer of ch.
WorkerPush(w) ==
    /\ wpc[w] = "range"
    /\ \E k \in wleft[w] :
          LET f == find(k, fallback)
              r == push(f.prop, wprops[w][k], <<pools[w]>>)
          IN  /\ r.sent # <<>> => sink = "open"
              /\ wlog' = IF f.err # NoErr THEN wlog \cup {<<pools[w], k>>} ELSE wlog
              /\ ch' = ch \o r.sent
              /\ wleft' = [wleft EXCEPT ![w] = @ \ {k}]
              /\ IF r.err # NoErr
                 THEN /\ werr' = [werr EXCEPT ![w] = r.err]
                      /\ wpc' = [wpc EXCEPT ![w] = "report"]
                 ELSE UNCHANGED <<werr, wpc>>
    /\ UNCHANGED <<diskVars, upc, ui, wg, errChan, sentErrs, pret, wprops, fallback, wcmd,
                   timeout, sink>>

\* updatePoolMetrics: the range is over, return nil.
WorkerReturn(w) ==
    /\ wpc[w] = "range"
    /\ wleft[w] = {}
    /\ wpc' = [wpc EXCEPT ![w] = "done"]
    /\ UNCHANGED <<diskVars, ch, upc, ui, wg, errChan, sentErrs, pret, wprops, wleft, werr,
                   wlog, fallback, wcmd, timeout, sink>>

\* The goroutine: errChan <- err, which blocks while the buffer is full.
WorkerReport(w) ==
    /\ wpc[w] = "report"
    /\ Len(errChan) < errChanCap
    /\ errChan' = Append(errChan, werr[w])
    /\ sentErrs' = Append(sentErrs, [worker |-> w, err |-> werr[w]])
    /\ wpc' = [wpc EXCEPT ![w] = "done"]
    /\ UNCHANGED <<diskVars, ch, upc, ui, wg, pret, wprops, wleft, werr, wlog, fallback,
                   wcmd, timeout, sink>>

\* The goroutine: wg.Done()
WorkerDone(w) ==
    /\ wpc[w] = "done"
    /\ wg' = wg - 1
    /\ wpc' = [wpc EXCEPT ![w] = "exited"]
    /\ UNCHANGED <<diskVars, ch, upc, ui, errChan, sentErrs, pret, wprops, wleft, werr, wlog,
                   fallback, wcmd, timeout, sink>>

\* The overall deadline of the cycle passes while update has workers
\* outstanding; nothing in update looks at it.
TimeoutFires ==
    /\ upc = "launch"
    /\ \E w \in Workers : wpc[w] # "exited"
    /\ ~timeout
    /\ timeout' = TRUE
    /\ UNCHANGED <<diskVars, ch, upc, ui, wg, errChan, sentErrs, pret, wpc, wprops, wleft,
                   werr, wlog, fallback, wcmd, sink>>

\* The consumer of ch stops taking observations while update is running.
SinkStops ==
    /\ upc = "launch"
    /\ sink = "open"
    /\ sink' = "closed"
    /\ UNCHANGED <<diskVars, ch, upc, ui, wg, errChan, sentErrs, pret, wpc, wprops, wleft,
                   werr, wlog, fallback, wcmd, timeout>>

PoolNext ==
    \/ UpdateLaunch
    \/ UpdateWait
    \/ UpdateSelect
    \/ \E w \in Workers : WorkerFetch(w)
    \/ \E w \in Workers : WorkerPush(w)
    \/ \E w \in Workers : WorkerReturn(w)
    \/ \E w \in Workers : WorkerReport(w)
    \/ \E w \in Workers : WorkerDone(w)
    \/ TimeoutFires

PoolSpec == PoolInit /\ [][PoolNext]_vars

\* update and its workers with a consumer that may stop, every goroutine
\* that can take a step taking one eventually and every external read
\* returning.
UpdateStep == UpdateLaunch \/ UpdateWait \/ UpdateSelect

WorkerStep(w) ==
    \/ WorkerFetch(w)
    \/ WorkerPush(w)
    \/ WorkerReturn(w)
    \/ WorkerReport(w)
    \/ WorkerDone(w)

SinkNext ==
    \/ UpdateLaunch
    \/ UpdateWait
    \/ UpdateSelect
    \/ \E w \in Workers : WorkerFetch(w)
    \/ \E w \in Workers : WorkerPush(w)
    \/ \E w \in Workers : WorkerReturn(w)
    \/ \E w \in Workers : WorkerReport(w)
    \/ \E w \in Workers : WorkerDone(w)
    \/ SinkStops

SinkSpec ==
    /\ PoolInit
    /\ [][SinkNext]_vars
    /\ WF_vars(UpdateStep)
    /\ \A w \in Workers : WF_vars(WorkerStep(w))

(***************************************************************************)
(* Vocabulary of the properties: a report described by its rows, without   *)
(* reference to the parser's state.                                        *)
(***************************************************************************)

\* parsePoolDisksFromLines was entered and has just returned (disks, err).
ParserReturned == pc = "got" /\ di = 1 /\ err # ErrExec

\* The lines of a report as the properties read them: the indentation and
\* the fields of each line, and whether it holds the three header markers.
Scan(report) ==
    [k \in 1..Len(report) |->
        [pad |-> Padding(report[k]),
         fields |-> Fields(report[k]),
         header |-> IsHeader(report[k])]] \o <<>>

\* The index of the first header line of ls, 0 if there is none.
FirstHeader(ls) ==
    IF \E h \in 1..Len(ls) : ls[h].header
    THEN CHOOSE h \in 1..Len(ls) :
            ls[h].header /\ \A j \in 1..(h - 1) : ~ls[j].header
    ELSE 0

\* The index of the line that ends the block of header h: the first later
\* line indented less than the header, Len(ls) + 1 if there is none.
BlockEndOf(ls, h) ==
    LET ends == {e \in (h + 1)..Len(ls) : ls[e].pad < ls[h].pad}
    IN  IF ends = {} THEN Len(ls) + 1
        ELSE CHOOSE e \in ends : \A e2 \in ends : e <= e2

BlockEnd(ls) == BlockEndOf(ls, FirstHeader(ls))

\* The rows of the block of the first header.
BlockRows(ls) ==
    IF FirstHeader(ls) = 0 THEN {} ELSE (FirstHeader(ls) + 1)..(BlockEnd(ls) - 1)

Depth(ls, k) == ls[k].pad - ls[FirstHeader(ls)].pad
NumFields(ls, k) == Len(ls[k].fields)
Field(ls, k, i) == ls[k].fields[i]

\* A decimal integer as the status report prints one, sign allowed.
IsDecimal(tok) ==
    LET ds == IF tok # <<>> /\ Head(tok) \in {"-", "+"} THEN Tail(tok) ELSE tok
    IN  ds # <<>> /\ \A i \in 1..Len(ds) : IsDigit(ds[i])

\* An unsigned decimal integer.
IsUnsigned(tok) == tok # <<>> /\ \A i \in 1..Len(tok) : IsDigit(tok[i])

CountersOk(ls, k) ==
    /\ NumFields(ls, k) = 5
    /\ IsDecimal(Field(ls, k, 3))
    /\ IsDecimal(Field(ls, k, 4))
    /\ IsDecimal(Field(ls, k, 5))

\* The `spares` marker row as the sample has it: at the header's indentation.
MarkerRow(ls, k) == Depth(ls, k) = 0 /\ ls[k].fields = <<strSpares>>

\* A pool row: five fields at the header's indentation.
PoolRow(ls, k) ==
    Depth(ls, k) = 0 /\ NumFields(ls, k) = 5 /\ Field(ls, k, 1) # strSpares

\* The depth-0 row that governs row k: the last one before it, 0 if none.
Governor(ls, k) ==
    LET zs == {z \in BlockRows(ls) : z < k /\ Depth(ls, z) = 0 /\ NumFields(ls, z) > 0}
    IN  IF zs = {} THEN 0 ELSE CHOOSE z \in zs : \A z2 \in zs : z2 <= z

UnderPool(ls, k) == Governor(ls, k) # 0 /\ PoolRow(ls, Governor(ls, k))
UnderSpares(ls, k) == Governor(ls, k) # 0 /\ MarkerRow(ls, Governor(ls, k))

\* The rows of the sample layout.
LayoutVdev(ls, k) == Depth(ls, k) = 2 /\ CountersOk(ls, k) /\ UnderPool(ls, k)
LayoutSpare(ls, k) == Depth(ls, k) = 2 /\ NumFields(ls, k) = 2 /\ UnderSpares(ls, k)

\* The vdev row that governs row k within its pool: the last one before it.
VdevOf(ls, k) ==
    LET vs == {v \in BlockRows(ls) : v < k /\ v > Governor(ls, k) /\ LayoutVdev(ls, v)}
    IN  IF vs = {} THEN 0 ELSE CHOOSE v \in vs : \A v2 \in vs : v2 <= v

LayoutDisk(ls, k) ==
    Depth(ls, k) = 4 /\ CountersOk(ls, k) /\ UnderPool(ls, k) /\ VdevOf(ls, k) # 0

\* The rows under the header that are neither pool rows nor marker rows,
\* in source order.
DataRows(ls) ==
    SelectSeq([k \in 1..Len(ls) |-> k],
              LAMBDA k : k \in BlockRows(ls) /\ Depth(ls, k) > 0 /\ NumFields(ls, k) > 0)

\* A single-pool report in the layout of the sample: header, pool row, vdev
\* rows each followed by its disk rows, then possibly the marker and the
\* spare rows.
SampleLayout(ls) ==
    /\ FirstHeader(ls) # 0
    /\ FirstHeader(ls) + 1 \in BlockRows(ls)
    /\ PoolRow(ls, FirstHeader(ls) + 1)
    /\ \A k \in BlockRows(ls) \ {FirstHeader(ls) + 1} :
          \/ LayoutVdev(ls, k)
          \/ LayoutDisk(ls, k)
          \/ LayoutSpare(ls, k)
          \/ (MarkerRow(ls, k) /\ UnderPool(ls, k))

\* Record d is the record of row k of a report in the sample layout.
RecordOfRow(d, ls, k) ==
    IF LayoutSpare(ls, k)
    THEN d.Kind = "spare" /\ d.Name = Field(ls, k, 1) /\ d.State = Field(ls, k, 2)
    ELSE d = PoolDisk(Field(ls, Governor(ls, k), 1),
                      IF LayoutVdev(ls, k) THEN Field(ls, k, 1)
                                           ELSE Field(ls, VdevOf(ls, k), 1),
                      Field(ls, k, 1),
                      IF LayoutVdev(ls, k) THEN "vdev" ELSE "disk",
                      Field(ls, k, 2),
                      Atoi(Field(ls, k, 3)).val,
                      Atoi(Field(ls, k, 4)).val,
                      Atoi(Field(ls, k, 5)).val)

KindCount(ds, kind) == Cardinality({i \in 1..Len(ds) : ds[i].Kind = kind})

(***************************************************************************)
(* C1.  A single-pool report in the sample layout yields, in source order, *)
(* exactly one record per vdev, disk and spare row and none for the pool   *)
(* row or the marker row; a vdev or disk record carries the pool row's     *)
(* name, the most recent vdev row's name, the row's state and its three    *)
(* integers.  The test's sample yields its 13 expected records: 4 vdev,    *)
(* 8 disk, 1 spare.                                                        *)
(***************************************************************************)
C1_SampleLayoutRecords ==
    LET ls == Scan(lines) IN
    ParserReturned =>
        /\ out = SampleReport =>
              /\ err = NoErr
              /\ disks = SampleExpected
              /\ Len(disks) = 13
              /\ KindCount(disks, "vdev") = 4
              /\ KindCount(disks, "disk") = 8
              /\ KindCount(disks, "spare") = 1
        /\ SampleLayout(ls) =>
              /\ err = NoErr
              /\ Len(disks) = Len(DataRows(ls))
              /\ \A i \in 1..Len(disks) : RecordOfRow(disks[i], ls, DataRows(ls)[i])

\* The sample of the test has been parsed into its 13 records.
C1_Witness ==
    LET ls == Scan(lines) IN
    /\ pc = "done"
    /\ out = SampleReport
    /\ SampleLayout(ls)
    /\ Len(disks) = 13
    /\ uret = NoErr

\* A well-formed topology report: under the header every row is a pool
\* row, the marker row, a vdev row of a pool, a device row below a vdev of
\* its pool, or a spare row below the marker; counters are plain numbers.
PlainCounters(ls, k) ==
    /\ NumFields(ls, k) = 5
    /\ IsUnsigned(Field(ls, k, 3))
    /\ IsUnsigned(Field(ls, k, 4))
    /\ IsUnsigned(Field(ls, k, 5))

WellFormedRow(ls, k) ==
    \/ PoolRow(ls, k) /\ PlainCounters(ls, k)
    \/ MarkerRow(ls, k)
    \/ LayoutVdev(ls, k) /\ PlainCounters(ls, k)
    \/ /\ Depth(ls, k) >= 4
       /\ PlainCounters(ls, k)
       /\ UnderPool(ls, k)
       /\ VdevOf(ls, k) # 0
    \/ LayoutSpare(ls, k)

WellFormed(ls) ==
    /\ FirstHeader(ls) # 0
    /\ \A k \in BlockRows(ls) : WellFormedRow(ls, k)

(***************************************************************************)
(* C2.  For a well-formed report the records are, one for one and in       *)
(* order, the data rows under the detected header: the rows that are       *)
(* neither pool rows nor the marker row.  No other line yields a record.   *)
(***************************************************************************)
C2_OneRecordPerDataRow ==
    LET ls == Scan(lines) IN
    (ParserReturned /\ WellFormed(ls)) =>
        /\ err = NoErr
        /\ Len(disks) = Len(DataRows(ls))
        /\ \A i \in 1..Len(disks) : disks[i].Name = Field(ls, DataRows(ls)[i], 1)

\* A well-formed report of two pools under one header, outside the sample
\* layout, has been parsed.
C2_Witness ==
    LET ls == Scan(lines) IN
    /\ pc = "done"
    /\ WellFormed(ls)
    /\ ~SampleLayout(ls)
    /\ Len(DataRows(ls)) >= 3
    /\ \E i, j \in 1..Len(disks) : disks[i].Zpool # disks[j].Zpool

(***************************************************************************)
(* C3.  Every record of kind disk has a vdev field equal to the name of a  *)
(* record of kind vdev that comes earlier in the result and has the same   *)
(* pool field.                                                             *)
(***************************************************************************)
C3_DiskVdevIsEarlierVdev ==
    ParserReturned =>
        \A i \in 1..Len(disks) :
            disks[i].Kind = "disk" =>
                \E j \in 1..(i - 1) :
                    /\ disks[j].Kind = "vdev"
                    /\ disks[j].Name = disks[i].Vdev
                    /\ disks[j].Zpool = disks[i].Zpool

(***************************************************************************)
(* C4.  Every record has a non-empty pool field, whatever the input.       *)
(***************************************************************************)
C4_PoolFieldNonEmpty ==
    ParserReturned => \A i \in 1..Len(disks) : disks[i].Zpool # <<>>

\* A five-field row that the parser reads counters from: a depth-1 row not
\* governed by a `spares` row, or a row at depth 2 or deeper.
GovernedBySpares(ls, k) ==
    Governor(ls, k) # 0 /\ Field(ls, Governor(ls, k), 1) = strSpares

CounterRow(ls, k) ==
    /\ k \in BlockRows(ls)
    /\ NumFields(ls, k) = 5
    /\ \/ Depth(ls, k) = 2 /\ ~GovernedBySpares(ls, k)
       \/ Depth(ls, k) >= 4

MalformedRow(ls, k) == CounterRow(ls, k) /\ ~CountersOk(ls, k)

C6_CountersNonNegative ==
    ParserReturned =>
        \A i \in 1..Len(disks) :
            /\ disks[i].ReadErrors >= 0
            /\ disks[i].WriteErrors >= 0
            /\ disks[i].ChecksumErrors >= 0
            /\ disks[i].Kind = "spare" =>
                  /\ disks[i].ReadErrors = 0
                  /\ disks[i].WriteErrors = 0
                  /\ disks[i].ChecksumErrors = 0

\* The headers of a report of several pools: every line that holds the
\* three markers.  The block of a header runs to the first later line
\* indented less than it.
Headers(ls) == {h \in 1..Len(ls) : ls[h].header}

\* The header whose block holds row k, 0 if none.
HeaderOf(ls, k) ==
    LET hs == {h \in Headers(ls) : h < k /\ k < BlockEndOf(ls, h)}
    IN  IF hs = {} THEN 0 ELSE CHOOSE h \in hs : \A h2 \in hs : h2 <= h

\* The pool row that governs row k in the block of its header, 0 if none.
PoolOf(ls, k) ==
    LET h  == HeaderOf(ls, k)
        zs == {z \in (h + 1)..(k - 1) :
                 ls[z].pad = ls[h].pad /\ Len(ls[z].fields) > 0}
    IN  IF h = 0 \/ zs = {} THEN 0 ELSE CHOOSE z \in zs : \A z2 \in zs : z2 <= z

\* The depth of row k below the header of its block.
DepthIn(ls, k) == ls[k].pad - ls[HeaderOf(ls, k)].pad

\* A vdev or disk row of some pool of the report: five fields with plain
\* counters, 2 or at least 4 deeper than its header, under a pool row.
PoolDataRow(ls, k) ==
    /\ HeaderOf(ls, k) # 0
    /\ PoolOf(ls, k) # 0
    /\ Len(ls[PoolOf(ls, k)].fields) = 5
    /\ PlainCounters(ls, k)
    /\ (DepthIn(ls, k) = 2 \/ DepthIn(ls, k) >= 4)

\* Row k of some block is a row of a well-formed report.
ReportRow(ls, k) ==
    LET g == PoolOf(ls, k)
    IN  \/ DepthIn(ls, k) = 0 /\ PlainCounters(ls, k) /\ ls[k].fields[1] # strSpares
        \/ DepthIn(ls, k) = 0 /\ ls[k].fields = <<strSpares>> /\ g # 0
        \/ DepthIn(ls, k) = 2 /\ PoolDataRow(ls, k)
        \/ /\ DepthIn(ls, k) = 2
           /\ Len(ls[k].fields) = 2
           /\ g # 0
           /\ ls[g].fields = <<strSpares>>
        \/ /\ DepthIn(ls, k) >= 4
           /\ PoolDataRow(ls, k)
           /\ \E v \in (g + 1)..(k - 1) : DepthIn(ls, v) = 2 /\ PoolDataRow(ls, v)

\* Well-formed reports one after the other: no header lies in the block of
\* another, and every row of every block is a row of a well-formed report.
ConcatenatedReports(ls) ==
    /\ Headers(ls) # {}
    /\ \A h \in Headers(ls) : HeaderOf(ls, h) = 0
    /\ \A k \in 1..Len(ls) : HeaderOf(ls, k) # 0 => ReportRow(ls, k)

(***************************************************************************)
(* C7.  For the concatenated reports of several pools, the vdev and disk   *)
(* rows of every pool are emitted, each with the name of the pool in whose *)
(* block it appears, and no disk record is attributed to the vdev of       *)
(* another pool (the pool row resets the vdev context).                    *)
(***************************************************************************)
C7_EveryPoolReported ==
    LET ls == Scan(lines) IN
    (ParserReturned /\ ConcatenatedReports(ls)) =>
        /\ \A k \in 1..Len(ls) :
              PoolDataRow(ls, k) =>
                  \E i \in 1..Len(disks) :
                      /\ disks[i].Name = ls[k].fields[1]
                      /\ disks[i].Zpool = ls[PoolOf(ls, k)].fields[1]
        /\ \A i \in 1..Len(disks) :
              disks[i].Kind = "disk" =>
                  \E j \in 1..(i - 1) :
                      /\ disks[j].Kind = "vdev"
                      /\ disks[j].Name = disks[i].Vdev
                      /\ disks[j].Zpool = disks[i].Zpool

\* The label values of a record: pool, vdev, state, kind, name.
LabelsOf(d) == <<d.Zpool, d.Vdev, d.State, d.Kind, d.Name>>

\* How many times metric m was sent on ch.
Sent(m) == Cardinality({j \in 1..Len(ch) : ch[j] = m})

\* How many of the records returned by the topology source satisfy P.
Records(P(_)) == Cardinality({j \in 1..Len(disks) : P(disks[j])})

(***************************************************************************)
(* C8.  When update has returned: if the topology source failed, nothing   *)
(* was published and its error is returned; otherwise each record has      *)
(* exactly one status observation of value 1 and, unless it is a spare,    *)
(* exactly one read, one write and one checksum observation with its own   *)
(* values, all with the record's labels; a spare has no error observation  *)
(* and nothing else was published.                                         *)
(***************************************************************************)
C8_DiskObservations ==
    pc = "done" =>
        IF err # NoErr
        THEN ch = <<>> /\ uret = err
        ELSE /\ uret = NoErr
             /\ Len(ch) = Len(disks) + 3 * Records(LAMBDA d : d.Kind # "spare")
             /\ \A i \in 1..Len(disks) :
                  LET d == disks[i]
                      L == LabelsOf(d)
                  IN  /\ Sent(Metric("zfs_disk_status", 1, L))
                           = Records(LAMBDA e : LabelsOf(e) = L)
                      /\ d.Kind # "spare" =>
                           /\ Sent(Metric("zfs_disk_read_error", d.ReadErrors, L))
                                = Records(LAMBDA e : LabelsOf(e) = L
                                                     /\ e.ReadErrors = d.ReadErrors)
                           /\ Sent(Metric("zfs_disk_write_error", d.WriteErrors, L))
                                = Records(LAMBDA e : LabelsOf(e) = L
                                                     /\ e.WriteErrors = d.WriteErrors)
                           /\ Sent(Metric("zfs_disk_checksum_error", d.ChecksumErrors, L))
                                = Records(LAMBDA e : LabelsOf(e) = L
                                                     /\ e.ChecksumErrors = d.ChecksumErrors)
                      /\ d.Kind = "spare" =>
                           \A j \in 1..Len(ch) :
                               ch[j].labels = L => ch[j].name = "zfs_disk_status"

\* update has published the observations of a spare and of two other
\* records and returned nil.
C8_Witness ==
    /\ pc = "done"
    /\ uret = NoErr
    /\ KindCount(disks, "spare") >= 1
    /\ KindCount(disks, "vdev") >= 1
    /\ KindCount(disks, "disk") >= 1
    /\ Len(ch) >= 9

(***************************************************************************)
(* Properties of the pool collector.                                       *)
(***************************************************************************)

\* Worker w failed: its updatePoolMetrics returned an error.
WorkerFailed(w) == werr[w] # NoErr

\* The fetch of worker w's pool succeeded and returned properties.
FetchOk(w) ==
    /\ wpc[w] \notin {"idle", "fetch"}
    /\ werr[w] \notin {ErrInvalidOutput, ErrExec}
    /\ DOMAIN wprops[w] # {}

\* Every value fetched for worker w's pool passes its property's transform.
TransformsOk(w) ==
    \A k \in DOMAIN wprops[w] :
        Transform(find(k, fallback).prop.transform, wprops[w][k]).ok

\* The observation of property k of worker w's pool.
Observation(w, k) ==
    LET prop == find(k, fallback).prop
    IN  Metric(prop.name, Transform(prop.transform, wprops[w][k]).val, <<pools[w]>>)

\* Every property fetched for worker w's pool was published once.
AllPublished(w) == \A k \in DOMAIN wprops[w] : Sent(Observation(w, k)) = 1

(***************************************************************************)
(* C9.  When poolCollector.update has returned: it returned nil exactly    *)
(* when no worker failed; otherwise it returned one error, the one that    *)
(* was reported first, which is the error of the worker that reported it.  *)
(***************************************************************************)
C9_UpdateReturnsFirstReported ==
    upc = "returned" =>
        /\ (pret = NoErr) <=> (\A w \in Workers : ~WorkerFailed(w))
        /\ pret # NoErr =>
              /\ sentErrs # <<>>
              /\ pret = sentErrs[1].err
              /\ werr[sentErrs[1].worker] = pret

\* update has returned after two workers reported different errors.
C9_Witness ==
    /\ upc = "returned"
    /\ Len(sentErrs) >= 2
    /\ sentErrs[1].err # sentErrs[2].err
    /\ pret = sentErrs[1].err

(***************************************************************************)
(* C10.  When poolCollector.update has returned, every worker has run to   *)
(* its end, and every pool whose fetch succeeded and whose values all      *)
(* transform has each of its properties published, however many of the     *)
(* other workers failed.                                                   *)
(***************************************************************************)
C10_FailureLeavesOtherPools ==
    upc = "returned" =>
        \A w \in Workers :
            /\ wpc[w] = "exited"
            /\ (FetchOk(w) /\ TransformsOk(w)) => AllPublished(w)

\* update has returned an error although a pool with two properties was
\* published in full.
C10_Witness ==
    /\ upc = "returned"
    /\ pret # NoErr
    /\ \E w \in Workers : WorkerFailed(w)
    /\ \E w \in Workers :
          /\ ~WorkerFailed(w)
          /\ Cardinality(DOMAIN wprops[w]) = 2
          /\ TransformsOk(w)
          /\ AllPublished(w)

\* The error the orchestration is to return when the deadline has passed.
ErrTimeout == "timeout"

(***************************************************************************)
(* C11.  If the overall deadline passed while workers of update were       *)
(* outstanding, update returns the timeout error and the cycle has         *)
(* published nothing: the observations of the workers that had completed   *)
(* are discarded.                                                          *)
(***************************************************************************)
C11_TimeoutDiscards ==
    (timeout /\ upc = "returned") => (pret = ErrTimeout /\ ch = <<>>)

\* Key k is registered in the pool property store.
Registered(k) == k \in DOMAIN poolProperties

\* The names of the observations of the registered keys.
RegisteredNames == {poolProperties[k].name : k \in DOMAIN poolProperties}

\* The value fetched for registered key k of worker w's pool transforms.
TransformOk(w, k) == Transform(poolProperties[k].transform, wprops[w][k]).ok

\* Worker w has finished a pool whose fetch succeeded.
Collected(w) == wpc[w] = "exited" /\ FetchOk(w)

(***************************************************************************)
(* C12.  When a worker has finished a pool whose fetch returned a key that *)
(* is not registered (all its registered keys having values that           *)
(* transform): the key was logged, nothing was published for the pool      *)
(* under a name that is not a registered one, the worker did not fail, and *)
(* every registered key of the pool was published.                         *)
(***************************************************************************)
C12_UnsupportedKeySkipped ==
    \A w \in Workers :
        ( /\ Collected(w)
          /\ \E k \in DOMAIN wprops[w] : ~Registered(k)
          /\ \A k \in DOMAIN wprops[w] : Registered(k) => TransformOk(w, k) ) =>
            /\ \A k \in DOMAIN wprops[w] : ~Registered(k) => <<pools[w], k>> \in wlog
            /\ werr[w] = NoErr
            /\ \A j \in 1..Len(ch) :
                  ch[j].labels = <<pools[w]>> => ch[j].name \in RegisteredNames
            /\ \A k \in DOMAIN wprops[w] : Registered(k) => Sent(Observation(w, k)) = 1

(***************************************************************************)
(* C13.  When a worker has finished a pool all of whose keys are           *)
(* registered and one of whose values does not transform: the worker       *)
(* reported the transform failure, and every other property of the pool    *)
(* was published.                                                          *)
(***************************************************************************)
C13_TransformFailureSparesSiblings ==
    \A w \in Workers :
        ( /\ Collected(w)
          /\ \A k \in DOMAIN wprops[w] : Registered(k)
          /\ \E k \in DOMAIN wprops[w] : ~TransformOk(w, k) ) =>
            /\ werr[w] = ErrTransform
            /\ \A k \in DOMAIN wprops[w] :
                  TransformOk(w, k) => Sent(Observation(w, k)) = 1

\* A row processLine is to accept for pool: three fields, the first the pool.
GoodRow(pool, row) == Len(row) = 3 /\ row[1] = pool

\* How many rows of rows are accepted before the first that is not.
Accepted(pool, rows) ==
    LET bad == {i \in 1..Len(rows) : ~GoodRow(pool, rows[i])}
    IN  IF bad = {} THEN Len(rows)
        ELSE (CHOOSE i \in bad : \A j \in bad : i <= j) - 1

\* Properties has returned to worker w.
Fetched(w) == wpc[w] \notin {"idle", "fetch"}

(***************************************************************************)
(* C14.  When Properties has returned to a worker, the property map holds  *)
(* exactly the rows printed before the first row that has not three fields *)
(* or names another pool, each property with the value of its last such    *)
(* row; if there is such a row the worker's error is ErrInvalidOutput, and *)
(* otherwise it is not.                                                    *)
(***************************************************************************)
C14_ProcessLineAcceptsOrRejects ==
    \A w \in Workers :
        Fetched(w) =>
            LET rows == wcmd[w].rows
                n == Accepted(pools[w], rows)
            IN  /\ DOMAIN wprops[w] = {rows[i][2] : i \in 1..n}
                /\ \A i \in 1..n :
                      (\A j \in (i + 1)..n : rows[j][2] # rows[i][2]) =>
                          wprops[w][rows[i][2]] = rows[i][3]
                /\ (n < Len(rows)) <=> (werr[w] = ErrInvalidOutput)

\* One worker's pool printed the same property twice, another's a row that
\* was rejected after a row that was stored.
C14_Witness ==
    /\ \E w \in Workers :
          /\ Fetched(w)
          /\ Accepted(pools[w], wcmd[w].rows) = 2
          /\ wcmd[w].rows[1][2] = wcmd[w].rows[2][2]
          /\ wprops[w] = [size |-> "2048"]
    /\ \E w \in Workers :
          /\ Fetched(w)
          /\ Accepted(pools[w], wcmd[w].rows) = 1
          /\ wprops[w] = [size |-> "1024"]
          /\ werr[w] = ErrInvalidOutput

(***************************************************************************)
(* C16.  update returns only when its loop has started one worker for      *)
(* every entry of pools and every one of them has exited; once update has  *)
(* returned, no step publishes an observation or reports an error.         *)
(***************************************************************************)
C16_UpdateOutlivesWorkers ==
    [][ /\ upc' = "returned" =>
            /\ ui' = Len(pools) + 1
            /\ \A w \in Workers : wpc'[w] = "exited"
        /\ upc = "returned" => (ch' = ch /\ sentErrs' = sentErrs) ]_vars

\* update has returned after every worker exited, some having published
\* and some having reported an error.
C16_Witness ==
    /\ upc = "returned"
    /\ \A w \in Workers : wpc[w] = "exited"
    /\ ch # <<>>
    /\ sentErrs # <<>>
    /\ Len(errChan) = Len(sentErrs) - 1

(***************************************************************************)
(* C15.  If, after the header, a line is indented less than the header,    *)
(* the parser returns what it returns for the lines before that line       *)
(* alone: whatever follows (another header, rows with malformed counters,  *)
(* further pools) adds no record, raises no error and changes neither      *)
(* currentZpool nor currentVdev.                                           *)
(***************************************************************************)
C15_BlockEndsForGood ==
    LET ls == Scan(lines) IN
    (ParserReturned /\ FirstHeader(ls) # 0 /\ BlockEnd(ls) <= Len(ls)) =>
        LET cut == SubSeq(lines, 1, BlockEnd(ls) - 1)
            st  == parseFrom(parseInit, cut, 1)
        IN  /\ err = parsePoolDisksFromLines(cut).err
            /\ disks = parsePoolDisksFromLines(cut).disks
            /\ err = NoErr =>
                  /\ brk
                  /\ idx = BlockEnd(ls) + 1
                  /\ currentZpool = st.currentZpool
                  /\ currentVdev = st.currentVdev
                  /\ poolDisks = st.poolDisks

\* The block was ended by a blank line or the `errors:` line, records had
\* been collected, and a header or a row with a malformed counter follows.
C15_Witness ==
    LET ls == Scan(lines) IN
    /\ ParserReturned
    /\ FirstHeader(ls) # 0
    /\ BlockEnd(ls) < Len(ls)
    /\ lines[BlockEnd(ls)] \in {<<>>, rErrors}
    /\ \E k \in (BlockEnd(ls) + 1)..Len(ls) :
          \/ ls[k].header
          \/ /\ ls[k].pad >= ls[FirstHeader(ls)].pad + 2
             /\ Len(ls[k].fields) = 5
             /\ ~IsDecimal(ls[k].fields[3])
    /\ err = NoErr
    /\ Len(disks) >= 2

(***************************************************************************)
(* The rows of the block that yield a record when no counter is malformed: *)
(* at depth 1 (2 more than the header) a two-field row governed by a       *)
(* `spares` row or a five-field row not governed by one, deeper (4 or      *)
(* more) a five-field row.                                                 *)
(***************************************************************************)
Emits(ls, k) ==
    /\ k \in BlockRows(ls)
    /\ \/ Depth(ls, k) = 2 /\ GovernedBySpares(ls, k) /\ NumFields(ls, k) = 2
       \/ Depth(ls, k) = 2 /\ ~GovernedBySpares(ls, k) /\ NumFields(ls, k) = 5
       \/ Depth(ls, k) >= 4 /\ NumFields(ls, k) = 5

\* The rows that yield a record, in source order.
EmitRows(ls) == SelectSeq([k \in 1..Len(ls) |-> k], LAMBDA k : Emits(ls, k))

\* Row k was emitted as a record of the given kind.
EmittedAs(ls, k, kind) ==
    LET er == EmitRows(ls)
    IN  \E i \in 1..Len(disks) : i <= Len(er) /\ er[i] = k /\ disks[i].Kind = kind

\* Row k lies in a spares context opened one level below the header: a
\* depth-1 row that consists of `spares` comes before it, with no depth-0
\* row between the two.
InSparesBelow(ls, k) ==
    \E m \in BlockRows(ls) :
        /\ m < k
        /\ Depth(ls, m) = 2
        /\ ls[m].fields = <<strSpares>>
        /\ Governor(ls, k) < m

(***************************************************************************)
(* C17 as stated.  After a depth-1 row that consists of `spares`, and      *)
(* until the next depth-0 row, a two-field depth-1 row is emitted as a     *)
(* spare, a five-field depth-1 row is not emitted as a vdev, and the       *)
(* marker row itself emits nothing.                                        *)
(***************************************************************************)
C17_MarkerBelowHeader ==
    LET ls == Scan(lines) IN
    (ParserReturned /\ err = NoErr) =>
        \A k \in BlockRows(ls) :
            (Depth(ls, k) = 2 /\ InSparesBelow(ls, k)) =>
                /\ NumFields(ls, k) = 2 => EmittedAs(ls, k, "spare")
                /\ NumFields(ls, k) = 5 => ~EmittedAs(ls, k, "vdev")

(***************************************************************************)
(* C17 amended.  The spares context is opened by a depth-0 row (at the     *)
(* header's indentation) whose first field is `spares`, as in the sample,  *)
(* and closed by the next depth-0 row; that row emits nothing.  Every row  *)
(* that yields a record yields one, in order; a depth-1 row yields a       *)
(* spare record if it is governed by a `spares` row and has two fields, a  *)
(* vdev record if it is not and has five, and nothing otherwise.  A        *)
(* `spares` row at depth 1 opens nothing.                                  *)
(***************************************************************************)
C17_MarkerAtHeaderDepth ==
    LET ls == Scan(lines) IN
    (ParserReturned /\ err = NoErr) =>
        LET er == EmitRows(ls)
        IN  /\ Len(disks) = Len(er)
            /\ \A i \in 1..Len(er) :
                  /\ disks[i].Name = Field(ls, er[i], 1)
                  /\ Depth(ls, er[i]) = 2 =>
                        disks[i].Kind = IF GovernedBySpares(ls, er[i]) THEN "spare"
                                                                       ELSE "vdev"

\* A report with a `spares` row at the header's indentation was parsed: a
\* two-field row below it became a spare and a five-field row below it
\* became nothing.
C17_Witness ==
    LET ls == Scan(lines) IN
    /\ ParserReturned
    /\ err = NoErr
    /\ \E k \in BlockRows(ls) :
          Depth(ls, k) = 2 /\ GovernedBySpares(ls, k) /\ NumFields(ls, k) = 5
    /\ \E k \in BlockRows(ls) : EmittedAs(ls, k, "spare")
    /\ KindCount(disks, "vdev") = 1

(***************************************************************************)
(* C18.  Every record of kind spare is the record of a two-field depth-1   *)
(* row governed by a `spares` row: its name is the row's first field, its  *)
(* state the second, its vdev is empty, its three counters are zero and    *)
(* its pool field is the literal `spares`, not the name of the pool that   *)
(* owns the spare.                                                         *)
(***************************************************************************)
C18_SpareRecordShape ==
    LET ls == Scan(lines) IN
    (ParserReturned /\ err = NoErr) =>
        LET er == EmitRows(ls)
        IN  \A i \in 1..Len(disks) :
                disks[i].Kind = "spare" =>
                    /\ i <= Len(er)
                    /\ NumFields(ls, er[i]) = 2
                    /\ Depth(ls, er[i]) = 2
                    /\ GovernedBySpares(ls, er[i])
                    /\ disks[i] = PoolDisk(strSpares, <<>>, Field(ls, er[i], 1), "spare",
                                           Field(ls, er[i], 2), 0, 0, 0)

\* A spare was emitted after a vdev and a disk of pool tank.
C18_Witness ==
    /\ ParserReturned
    /\ err = NoErr
    /\ currentVdev = tM0
    /\ \E i \in 1..Len(disks) : disks[i].Kind = "disk" /\ disks[i].Zpool = tTank
    /\ \E i \in 1..Len(disks) :
          disks[i] = PoolDisk(strSpares, <<>>, tSdj, "spare", tAVAIL, 0, 0, 0)

\* Row k is a five-field depth-1 row.
TopLevelDevice(ls, k) == k \in BlockRows(ls) /\ Depth(ls, k) = 2 /\ NumFields(ls, k) = 5

(***************************************************************************)
(* C19.  A five-field depth-1 row under a pool row (devices directly under *)
(* the pool, or vdevs: the shape is the same) yields exactly one record,   *)
(* of kind vdev, with vdev and name equal to the row's name, the pool      *)
(* row's name as pool, the row's state and counters; and it is the vdev of *)
(* every record of a deeper row that follows it before the next five-field *)
(* depth-1 row.                                                            *)
(***************************************************************************)
C19_TopLevelDeviceIsVdev ==
    LET ls == Scan(lines) IN
    (ParserReturned /\ err = NoErr) =>
        LET er == EmitRows(ls)
        IN  /\ Len(disks) = Len(er)
            /\ \A k \in BlockRows(ls) :
                  (TopLevelDevice(ls, k) /\ Governor(ls, k) # 0 /\ ~GovernedBySpares(ls, k)) =>
                      Cardinality({i \in 1..Len(er) : er[i] = k}) = 1
            /\ \A i \in 1..Len(er) :
                  (/\ TopLevelDevice(ls, er[i])
                   /\ Governor(ls, er[i]) # 0
                   /\ ~GovernedBySpares(ls, er[i])) =>
                      /\ disks[i] = PoolDisk(Field(ls, Governor(ls, er[i]), 1),
                                             Field(ls, er[i], 1),
                                             Field(ls, er[i], 1),
                                             "vdev",
                                             Field(ls, er[i], 2),
                                             Atoi(Field(ls, er[i], 3)).val,
                                             Atoi(Field(ls, er[i], 4)).val,
                                             Atoi(Field(ls, er[i], 5)).val)
                      /\ \A j \in (i + 1)..Len(er) :
                            (/\ Depth(ls, er[j]) >= 4
                             /\ \A m \in (er[i] + 1)..(er[j] - 1) : ~TopLevelDevice(ls, m)) =>
                                /\ disks[j].Kind = "disk"
                                /\ disks[j].Vdev = Field(ls, er[i], 1)

\* Two top-level devices of pool tank, each followed by a deeper row.
C19_Witness ==
    /\ ParserReturned
    /\ err = NoErr
    /\ Len(disks) >= 4
    /\ disks[1].Kind = "vdev" /\ disks[1].Zpool = tTank
    /\ disks[2].Kind = "disk" /\ disks[2].Vdev = disks[1].Name
    /\ disks[3].Kind = "vdev" /\ disks[3].Zpool = tTank
    /\ disks[3].Name # disks[1].Name
    /\ disks[4].Kind = "disk" /\ disks[4].Vdev = disks[3].Name

\* Row k of the block, below the header's indentation level, is not of a
\* shape that yields a record at its depth and in its context.
Skipped(ls, k) == k \in BlockRows(ls) /\ Depth(ls, k) > 0 /\ ~Emits(ls, k)

\* The report without its skipped rows.
WithoutSkipped(report) ==
    LET ls   == Scan(report)
        keep == SelectSeq([k \in 1..Len(report) |-> k], LAMBDA k : ~Skipped(ls, k))
    IN  [i \in 1..Len(keep) |-> report[keep[i]]]

(***************************************************************************)
(* C20.  The rows of the block at depth 1 or deeper that are not of a      *)
(* shape that yields a record have no effect: the parser returns the same  *)
(* error and, if none, the same records, currentZpool and currentVdev as   *)
(* for the report with these rows taken out, also when their counter       *)
(* fields are not integers.                                                *)
(***************************************************************************)
C20_SkippedRowsHaveNoEffect ==
    LET ls == Scan(lines) IN
    (ParserReturned /\ \E k \in 1..Len(ls) : Skipped(ls, k)) =>
        LET ref == parseFrom(parseInit, WithoutSkipped(lines), 1)
        IN  /\ err = ref.err
            /\ err = NoErr =>
                  /\ disks = ref.poolDisks
                  /\ currentZpool = ref.currentZpool
                  /\ currentVdev = ref.currentVdev

\* A five-field row with a counter that is no integer was skipped, and a
\* row after it yielded a record.
C20_Witness ==
    LET ls == Scan(lines) IN
    /\ ParserReturned
    /\ err = NoErr
    /\ \E k \in 1..Len(ls) :
          /\ Skipped(ls, k)
          /\ NumFields(ls, k) = 5
          /\ ~CountersOk(ls, k)
          /\ \E j \in (k + 1)..Len(ls) : Emits(ls, j)
    /\ Len(disks) = Len(EmitRows(ls))

(***************************************************************************)
(* C21.  The lines before the first header have no effect: the parser      *)
(* returns the error and the records it returns for the report from its    *)
(* first header on, and leaves currentZpool and currentVdev as that does;  *)
(* a report without a header yields no record and no error and sets        *)
(* neither; and minPadding is the indentation of the first header from the *)
(* step that finds it to the end.                                          *)
(***************************************************************************)
C21_PreambleHasNoEffect ==
    /\ [](LET ls == Scan(lines) IN
          ParserReturned =>
              IF FirstHeader(ls) = 0
              THEN /\ disks = <<>>
                   /\ err = NoErr
                   /\ ~isInsideDisks
                   /\ currentZpool = <<>>
                   /\ currentVdev = <<>>
              ELSE LET rest == SubSeq(lines, FirstHeader(ls), Len(lines))
                       ref  == parseFrom(parseInit, rest, 1)
                   IN  /\ err = ref.err
                       /\ disks = parsePoolDisksFromLines(rest).disks
                       /\ currentZpool = ref.currentZpool
                       /\ currentVdev = ref.currentVdev
                       /\ isInsideDisks
                       /\ minPadding = ls[FirstHeader(ls)].pad)
    /\ [][ /\ isInsideDisks => (isInsideDisks' /\ minPadding' = minPadding)
           /\ (~isInsideDisks /\ pc = "parse" /\ pc' = "parse") =>
                 /\ poolDisks' = <<>>
                 /\ currentZpool' = <<>>
                 /\ currentVdev' = <<>> ]_vars

\* A report whose first line would be a pool row, a marker or a row with a
\* malformed counter after the header was parsed into records.
C21_Witness ==
    LET ls == Scan(lines) IN
    /\ ParserReturned
    /\ FirstHeader(ls) = 2
    /\ Len(ls[1].fields) \in {1, 5}
    /\ err = NoErr
    /\ Len(disks) >= 2

(***************************************************************************)
(* Properties of update under a consumer that may stop.                    *)
(***************************************************************************)

\* The number of errors worker w has put on errChan so far.
ErrorsSent(w) == Cardinality({i \in 1..Len(sentErrs) : sentErrs[i].worker = w})

\* Handling key k of worker w's properties sends an observation on ch.
Sends(w, k) == push(find(k, fallback).prop, wprops[w][k], <<pools[w]>>).sent # <<>>

\* Worker w is in its range loop and whichever key comes next, it sends.
Publishing(w) ==
    /\ wpc[w] = "range"
    /\ wleft[w] # {}
    /\ \A k \in wleft[w] : Sends(w, k)

\* Worker w is publishing to a consumer that has stopped.
Blocked(w) == sink = "closed" /\ Publishing(w)

\* C22: a worker puts at most one error on errChan and errChan holds one
\* error per pool, so a worker that has an error to report can always report
\* it and then reaches wg.Done(), so that in the end no worker is left
\* between its error and its exit; update returns in the end as long as the
\* consumer of ch keeps accepting; a worker that is publishing when the
\* consumer stops takes no further step, stays so for good, and update never
\* gets past wg.Wait().
C22_ReportNeverBlocksSendMay ==
    /\ [](\A w \in Workers :
             /\ ErrorsSent(w) <= 1
             /\ Len(errChan) <= Len(pools)
             /\ wpc[w] = "report" => ENABLED WorkerReport(w)
             /\ Blocked(w) => /\ ~ENABLED WorkerStep(w)
                              /\ upc \notin {"select", "returned"})
    /\ [][\A w \in Workers : Blocked(w) => Blocked(w)']_vars
    /\ <>[](/\ \A w \in Workers : wpc[w] \notin {"report", "done"}
            /\ upc = "returned" \/ sink = "closed")

\* Every worker but one has failed and exited, errChan is full but for the
\* last worker's slot, and the last worker is publishing to a consumer that
\* has stopped while update is in wg.Wait().
C22_Witness ==
    /\ upc = "launch"
    /\ ui > Len(pools)
    /\ Len(errChan) = Len(pools) - 1
    /\ \E w \in Workers :
          /\ Blocked(w)
          /\ \A v \in Workers \ {w} : wpc[v] = "exited" /\ ErrorsSent(v) = 1
====
